---- MODULE Spec2Model ----
(***************************************************************************)
(* APIRateLimiter (scripts/api_ratelimiter.py): a sliding-window limiter   *)
(* with four quotas (requests and tokens, per minute and per day), called  *)
(* from several threads.  Time is the integer value of time.time(); every  *)
(* block of code that runs under self.lock between two clock reads is one  *)
(* action, every statement that runs outside the lock and touches shared   *)
(* fields is split into its read and its write.                            *)
(***************************************************************************)
EXTENDS Integers, Sequences, FiniteSets, TLC

\* ---------------------------------------------------------------- bounds
MaxRecords == 2          \* record_request calls in one behaviour
MaxHits == 2             \* rejected attempts that start their bookkeeping

\* ------------------------------------------------------ program constants
minute_window == 60
day_window == 86400
max_wait_time == 30

\* ----------------------------------------------------------- input sets
Threads == {1, 2}
\* instants at which the clock is read (time only moves forward)
TimePoints == {0, 1, 31, 61, 86371, 86401}
\* the instants of the runs with several threads
ConcTimePoints == {0, 31, 61, 86401}
\* tokens_estimate is not validated: a negative value is accepted as well
Estimates == {-5, 20, 30, 600}
ConcEstimates == {30}
TokensUsed == {100, 480}
Limits(rpm, tpm, rpd, tpd) ==
    [requests_per_minute |-> rpm, tokens_per_minute |-> tpm,
     requests_per_day |-> rpd, tokens_per_day |-> tpd]
Configs == {Limits(2, 500, 2, 500), Limits(3, 1000, 3, 500),
            Limits(0, 500, 2, 500)}

VARIABLES
    limits,            \* the four configured ceilings (set by __init__)
    minute_requests,   \* deque of timestamps
    minute_tokens,     \* deque of <<timestamp, tokens>>
    day_requests,      \* deque of timestamps
    day_tokens,        \* deque of <<timestamp, tokens>>
    total_requests, total_tokens, total_wait_time, rate_limit_hits,
    lock,              \* owner of self.lock, 0 when free
    clock,             \* what time.time() returns now
    pc,                \* per thread: where it is
    op,                \* per thread: the public method it is in
    arg,               \* per thread: tokens_estimate / tokens_used
    result,            \* per thread: (can_proceed, wait_time, limit_type)
    tmp,               \* per thread: the value read by a pending +=
    wake,              \* per thread: when its time.sleep ends
    ret,               \* per thread: how its last call ended
    hits_done,         \* number of `rate_limit_hits += 1` statements completed
    wait_done,         \* sum of the waits added by completed `total_wait_time +=`
    history,           \* every <<timestamp, tokens>> record_request appended
    snap               \* the dict get_usage_stats returned in the last step

logs == <<minute_requests, minute_tokens, day_requests, day_tokens>>
stats == <<total_requests, total_tokens, total_wait_time, rate_limit_hits>>
locals == <<pc, op, arg, result, tmp, wake, ret>>
ghost == <<hits_done, wait_done>>
vars == <<limits, logs, stats, lock, clock, locals, ghost, history, snap>>

\* ------------------------------------------------------------- helpers
Max(a, b) == IF a >= b THEN a ELSE b

RECURSIVE SumTokens(_)
SumTokens(q) == IF q = <<>> THEN 0 ELSE Head(q)[2] + SumTokens(Tail(q))

\* an entry exactly one window old is already dropped
RECURSIVE clean_requests_inclusive(_, _, _)
clean_requests_inclusive(q, now, window) ==
    IF q # <<>> /\ now - Head(q) >= window
    THEN clean_requests_inclusive(Tail(q), now, window)
    ELSE q

\* lines 62-63, 69-70: while q and now - q[0] > window: q.popleft()
RECURSIVE clean_requests(_, _, _)
clean_requests(q, now, window) ==
    IF q # <<>> /\ now - Head(q) > window
    THEN clean_requests(Tail(q), now, window)
    ELSE q

\* lines 65-66, 72-73: while q and now - q[0][0] > window: q.popleft()
RECURSIVE clean_tokens(_, _, _)
clean_tokens(q, now, window) ==
    IF q # <<>> /\ now - Head(q)[1] > window
    THEN clean_tokens(Tail(q), now, window)
    ELSE q

NoResult == [ok |-> FALSE, wait |-> 0, kind |-> "unset", exc |-> "none"]
Returned(ok, w, kind) == [ok |-> ok, wait |-> w, kind |-> kind, exc |-> "none"]
Raised(e) == [ok |-> FALSE, wait |-> 0, kind |-> "unset", exc |-> e]

\* the wait without its floor at 0
request_gate_unfloored(q, now, window, kind) ==
    IF q = <<>> THEN Raised("IndexError")
    ELSE Returned(FALSE, window - (now - Head(q)), kind)

\* the wait measured from the newest entry instead of the oldest
request_gate_newest(q, now, window, kind) ==
    IF q = <<>> THEN Raised("IndexError")
    ELSE Returned(FALSE, Max(0, window - (now - q[Len(q)])), kind)

\* lines 94-96 / 107-109: q[0] raises IndexError on an empty deque
request_gate(q, now, window, kind) ==
    IF q = <<>> THEN Raised("IndexError")
    ELSE Returned(FALSE, Max(0, window - (now - Head(q))), kind)

\* the comparison with the token ceiling turned around
tokens_exceed_reversed(current, tokens_estimate, ceiling) ==
    current + tokens_estimate < ceiling

\* the ceiling itself already rejected
tokens_exceed_inclusive(current, tokens_estimate, ceiling) ==
    current + tokens_estimate >= ceiling

\* lines 100 / 113
tokens_exceed(current, tokens_estimate, ceiling) ==
    current + tokens_estimate > ceiling

\* the wait measured from the newest token entry instead of the oldest
token_gate_newest(q, now, window, kind) ==
    LET oldest_token_time == IF q # <<>> THEN q[Len(q)][1] ELSE now
    IN Returned(FALSE, Max(0, window - (now - oldest_token_time)), kind)

\* an empty log measured from time 0 instead of from now
token_gate_epoch(q, now, window, kind) ==
    LET oldest_token_time == IF q # <<>> THEN Head(q)[1] ELSE 0
    IN Returned(FALSE, Max(0, window - (now - oldest_token_time)), kind)

\* lines 101-103 / 114-116
token_gate(q, now, window, kind) ==
    LET oldest_token_time == IF q # <<>> THEN Head(q)[1] ELSE now
    IN Returned(FALSE, Max(0, window - (now - oldest_token_time)), kind)

\* the token gate of each window tried before its request gate
check_gates_tokens_first(mr, mt, dr, dt, now, tokens_estimate, lim) ==
    IF tokens_exceed(SumTokens(mt), tokens_estimate, lim.tokens_per_minute)
    THEN token_gate(mt, now, minute_window, "tokens_per_minute")
    ELSE IF Len(mr) >= lim.requests_per_minute
    THEN request_gate(mr, now, minute_window, "requests_per_minute")
    ELSE IF tokens_exceed(SumTokens(dt), tokens_estimate, lim.tokens_per_day)
    THEN token_gate(dt, now, day_window, "tokens_per_day")
    ELSE IF Len(dr) >= lim.requests_per_day
    THEN request_gate(dr, now, day_window, "requests_per_day")
    ELSE Returned(TRUE, 0, "none")

\* lines 92-118, on the logs as _clean_old_entries left them
check_gates(mr, mt, dr, dt, now, tokens_estimate, lim) ==
    IF Len(mr) >= lim.requests_per_minute
    THEN request_gate(mr, now, minute_window, "requests_per_minute")
    ELSE IF tokens_exceed(SumTokens(mt), tokens_estimate, lim.tokens_per_minute)
    THEN token_gate(mt, now, minute_window, "tokens_per_minute")
    ELSE IF Len(dr) >= lim.requests_per_day
    THEN request_gate(dr, now, day_window, "requests_per_day")
    ELSE IF tokens_exceed(SumTokens(dt), tokens_estimate, lim.tokens_per_day)
    THEN token_gate(dt, now, day_window, "tokens_per_day")
    ELSE Returned(TRUE, 0, "none")

\* lines 88-118: what a whole check_rate_limit(tokens_estimate) returns when
\* it runs at the instant `now` on the logs mr, mt, dr, dt
check_rate_limit(mr, mt, dr, dt, now, tokens_estimate, lim) ==
    check_gates(clean_requests(mr, now, minute_window),
                clean_tokens(mt, now, minute_window),
                clean_requests(dr, now, day_window),
                clean_tokens(dt, now, day_window),
                now, tokens_estimate, lim)

\* the division without its guard
percentage_unguarded(n, ceiling) == [num |-> n * 100, den |-> ceiling]

\* lines 188-189: (len / ceiling) * 100 if ceiling > 0 else 0, kept as the
\* exact fraction num / den
percentage(n, ceiling) ==
    IF ceiling > 0 THEN [num |-> n * 100, den |-> ceiling]
    ELSE [num |-> 0, den |-> 1]

NoSnap == [taken |-> FALSE]

\* lines 178-191: the dict get_usage_stats builds (without the name and the
\* wall-clock "timestamp" string)
usage_stats(mr, mt, dr, dt, tr, tt, hits, waited, lim) ==
    [taken |-> TRUE,
     current_minute_requests |-> Len(mr),
     current_minute_tokens |-> SumTokens(mt),
     current_day_requests |-> Len(dr),
     current_day_tokens |-> SumTokens(dt),
     total_requests |-> tr,
     total_tokens |-> tt,
     rate_limit_hits |-> hits,
     total_wait_time |-> waited,
     minute_limit_percentage |-> percentage(Len(mr), lim.requests_per_minute),
     day_limit_percentage |-> percentage(Len(dr), lim.requests_per_day)]

\* ---------------------------------------------------------------- Init
\* lines 14-55: __init__ with the four ceilings lim
Constructed(lim) ==
    /\ limits = lim
    /\ minute_requests = <<>> /\ minute_tokens = <<>>
    /\ day_requests = <<>> /\ day_tokens = <<>>
    /\ total_requests = 0 /\ total_tokens = 0
    /\ total_wait_time = 0 /\ rate_limit_hits = 0
    /\ lock = 0
    /\ clock = 0
    /\ pc = [t \in Threads |-> "idle"]
    /\ op = [t \in Threads |-> "none"]
    /\ arg = [t \in Threads |-> 0]
    /\ result = [t \in Threads |-> NoResult]
    /\ tmp = [t \in Threads |-> 0]
    /\ wake = [t \in Threads |-> 0]
    /\ ret = [t \in Threads |-> "none"]
    /\ hits_done = 0 /\ wait_done = 0
    /\ history = <<>>
    /\ snap = NoSnap

Init == \E lim \in Configs : Constructed(lim)

\* --------------------------------------------------------------- actions
\* time passes (also while a thread holds the lock or sleeps)
Tick ==
    /\ \E p \in TimePoints : p > clock /\ clock' = p
    /\ snap' = NoSnap
    /\ UNCHANGED <<limits, history, logs, stats, lock, locals, ghost>>

\* _clean_old_entries without its two token loops
Clean_requests_only(t) ==
    /\ lock = 0
    /\ lock' = t
    /\ minute_requests' = clean_requests(minute_requests, clock, minute_window)
    /\ minute_tokens' = minute_tokens
    /\ day_requests' = clean_requests(day_requests, clock, day_window)
    /\ day_tokens' = day_tokens

\* the check reserves a slot: it appends its own timestamp after pruning
Clean_reserving(t) ==
    /\ lock = 0
    /\ lock' = t
    /\ minute_requests' =
          Append(clean_requests(minute_requests, clock, minute_window), clock)
    /\ minute_tokens' = clean_tokens(minute_tokens, clock, minute_window)
    /\ day_requests' = clean_requests(day_requests, clock, day_window)
    /\ day_tokens' = clean_tokens(day_tokens, clock, day_window)

\* lines 88-89: with self.lock: self._clean_old_entries()   (now read at 59)
Clean(t) ==
    /\ lock = 0
    /\ lock' = t
    /\ minute_requests' = clean_requests(minute_requests, clock, minute_window)
    /\ minute_tokens' = clean_tokens(minute_tokens, clock, minute_window)
    /\ day_requests' = clean_requests(day_requests, clock, day_window)
    /\ day_tokens' = clean_tokens(day_tokens, clock, day_window)

\* a call of method(a) enters check_rate_limit and runs it up to line 89
EnterCheck(t, method, a) ==
    /\ pc[t] = "idle"
    /\ Clean(t)
    /\ pc' = [pc EXCEPT ![t] = "check_gates"]
    /\ op' = [op EXCEPT ![t] = method]
    /\ arg' = [arg EXCEPT ![t] = a]
    /\ result' = [result EXCEPT ![t] = NoResult]
    /\ ret' = [ret EXCEPT ![t] = "none"]
    /\ snap' = NoSnap
    /\ UNCHANGED <<limits, history, stats, clock, tmp, wake, ghost>>

\* a caller invokes check_rate_limit(tokens_estimate): lines 75-89
CallCheck(t) == \E e \in Estimates : EnterCheck(t, "check", e)

\* a caller invokes wait_if_needed(tokens_estimate): lines 156-159, 88-89
CallWait(t) == \E e \in Estimates : EnterCheck(t, "wait", e)

\* wait_if_needed keeps the lock of a rejected check across its bookkeeping
\* and its sleep
CheckGates_holding(t) ==
    /\ pc[t] = "check_gates"
    /\ lock = t
    /\ LET r == check_gates(minute_requests, minute_tokens, day_requests,
                            day_tokens, clock, arg[t], limits)
       IN /\ result' = [result EXCEPT ![t] = r]
          /\ lock' = IF r.exc = "none" /\ op[t] # "check" /\ ~r.ok THEN t ELSE 0
          /\ IF r.exc # "none"
             THEN /\ pc' = [pc EXCEPT ![t] = "idle"]
                  /\ ret' = [ret EXCEPT ![t] = r.exc]
                  /\ op' = [op EXCEPT ![t] = "none"]
                  /\ arg' = [arg EXCEPT ![t] = 0]
             ELSE IF op[t] = "check"
             THEN /\ pc' = [pc EXCEPT ![t] = "idle"]
                  /\ ret' = [ret EXCEPT ![t] = "triple"]
                  /\ op' = [op EXCEPT ![t] = "none"]
                  /\ arg' = [arg EXCEPT ![t] = 0]
             ELSE /\ pc' = [pc EXCEPT ![t] = "wait_branch"]
                  /\ UNCHANGED <<ret, op, arg>>
    /\ snap' = NoSnap
    /\ UNCHANGED <<limits, history, logs, stats, clock, tmp, wake, ghost>>

\* lines 90-118: now = time.time(); the four gates; the lock is released on
\* return and on the IndexError alike
CheckGates(t) ==
    /\ pc[t] = "check_gates"
    /\ lock = t
    /\ lock' = 0
    /\ LET r == check_gates(minute_requests, minute_tokens, day_requests,
                            day_tokens, clock, arg[t], limits)
       IN /\ result' = [result EXCEPT ![t] = r]
          /\ IF r.exc # "none"
             THEN /\ pc' = [pc EXCEPT ![t] = "idle"]
                  /\ ret' = [ret EXCEPT ![t] = r.exc]
                  /\ op' = [op EXCEPT ![t] = "none"]
                  /\ arg' = [arg EXCEPT ![t] = 0]
             ELSE IF op[t] = "check"
             THEN /\ pc' = [pc EXCEPT ![t] = "idle"]
                  /\ ret' = [ret EXCEPT ![t] = "triple"]
                  /\ op' = [op EXCEPT ![t] = "none"]
                  /\ arg' = [arg EXCEPT ![t] = 0]
             ELSE /\ pc' = [pc EXCEPT ![t] = "wait_branch"]
                  /\ UNCHANGED <<ret, op, arg>>
    /\ snap' = NoSnap
    /\ UNCHANGED <<limits, history, logs, stats, clock, tmp, wake, ghost>>

\* the admitted call is booked as a request by wait_if_needed itself
WaitProceed_booking(t) ==
    /\ pc[t] = "wait_branch"
    /\ result[t].ok
    /\ pc' = [pc EXCEPT ![t] = IF op[t] = "explain" THEN "api_call" ELSE "idle"]
    /\ ret' = [ret EXCEPT ![t] = "true"]
    /\ op' = [op EXCEPT ![t] = "none"]
    /\ arg' = [arg EXCEPT ![t] = 0]
    /\ result' = [result EXCEPT ![t] = NoResult]
    /\ total_requests' = total_requests + 1
    /\ snap' = NoSnap
    /\ UNCHANGED <<limits, history, logs, total_tokens, total_wait_time, rate_limit_hits,
                   lock, clock, tmp, wake, ghost>>

\* lines 161-162: if can_proceed: return True
WaitProceed(t) ==
    /\ pc[t] = "wait_branch"
    /\ result[t].ok
    /\ pc' = [pc EXCEPT ![t] = IF op[t] = "explain" THEN "api_call" ELSE "idle"]
    /\ ret' = [ret EXCEPT ![t] = "true"]
    /\ op' = [op EXCEPT ![t] = "none"]
    /\ arg' = [arg EXCEPT ![t] = 0]
    /\ result' = [result EXCEPT ![t] = NoResult]
    /\ snap' = NoSnap
    /\ UNCHANGED <<limits, history, logs, stats, lock, clock, tmp, wake, ghost>>

\* the comparison with the patience ceiling turned around
give_up_reversed(wait_time) == wait_time < max_wait_time

\* a wait of exactly the patience ceiling already gives up
give_up_inclusive(wait_time) == wait_time >= max_wait_time

\* line 164
give_up(wait_time) == wait_time > max_wait_time

\* lines 164-165: the read of self.rate_limit_hits += 1
WaitGiveUpLoad(t) ==
    /\ pc[t] = "wait_branch"
    /\ ~result[t].ok
    /\ give_up(result[t].wait)
    /\ hits_done < MaxHits
    /\ tmp' = [tmp EXCEPT ![t] = rate_limit_hits]
    /\ pc' = [pc EXCEPT ![t] = "giveup_store"]
    /\ result' = [result EXCEPT ![t] = NoResult]
    /\ snap' = NoSnap
    /\ UNCHANGED <<limits, history, logs, stats, lock, clock, op, arg, wake, ret, ghost>>

\* explain_code does not branch on the result: it goes on to the API call
\* after wait_if_needed returned False
WaitGiveUpStore_ignored(t) ==
    /\ pc[t] = "giveup_store"
    /\ rate_limit_hits' = tmp[t] + 1
    /\ hits_done' = hits_done + 1
    /\ pc' = [pc EXCEPT ![t] = IF op[t] = "explain" THEN "api_call" ELSE "idle"]
    /\ ret' = [ret EXCEPT ![t] = "false"]
    /\ op' = [op EXCEPT ![t] = "none"]
    /\ arg' = [arg EXCEPT ![t] = 0]
    /\ tmp' = [tmp EXCEPT ![t] = 0]
    /\ snap' = NoSnap
    /\ UNCHANGED <<limits, history, logs, total_requests, total_tokens, total_wait_time,
                   lock, clock, result, wake, wait_done>>

\* lines 165-166: the write of self.rate_limit_hits += 1; return False
WaitGiveUpStore(t) ==
    /\ pc[t] = "giveup_store"
    /\ rate_limit_hits' = tmp[t] + 1
    /\ hits_done' = hits_done + 1
    /\ pc' = [pc EXCEPT ![t] = "idle"]
    /\ ret' = [ret EXCEPT ![t] = "false"]
    /\ op' = [op EXCEPT ![t] = "none"]
    /\ arg' = [arg EXCEPT ![t] = 0]
    /\ tmp' = [tmp EXCEPT ![t] = 0]
    /\ snap' = NoSnap
    /\ UNCHANGED <<limits, history, logs, total_requests, total_tokens, total_wait_time,
                   lock, clock, result, wake, wait_done>>

\* line 169: the read of self.total_wait_time += wait_time
WaitAccLoad(t) ==
    /\ pc[t] = "wait_branch"
    /\ ~result[t].ok
    /\ ~give_up(result[t].wait)
    /\ hits_done < MaxHits
    /\ tmp' = [tmp EXCEPT ![t] = total_wait_time]
    /\ pc' = [pc EXCEPT ![t] = "acc_store"]
    /\ snap' = NoSnap
    /\ UNCHANGED <<limits, history, logs, stats, lock, clock, op, arg, result, wake, ret, ghost>>

\* line 169: the write of self.total_wait_time += wait_time
WaitAccStore(t) ==
    /\ pc[t] = "acc_store"
    /\ total_wait_time' = tmp[t] + result[t].wait
    /\ wait_done' = wait_done + result[t].wait
    /\ pc' = [pc EXCEPT ![t] = "hit_load"]
    /\ tmp' = [tmp EXCEPT ![t] = 0]
    /\ snap' = NoSnap
    /\ UNCHANGED <<limits, history, logs, total_requests, total_tokens, rate_limit_hits,
                   lock, clock, op, arg, result, wake, ret, hits_done>>

\* line 170: the read of self.rate_limit_hits += 1
WaitHitLoad(t) ==
    /\ pc[t] = "hit_load"
    /\ tmp' = [tmp EXCEPT ![t] = rate_limit_hits]
    /\ pc' = [pc EXCEPT ![t] = "hit_store"]
    /\ snap' = NoSnap
    /\ UNCHANGED <<limits, history, logs, stats, lock, clock, op, arg, result, wake, ret, ghost>>

\* lines 170-171: the write of self.rate_limit_hits += 1; time.sleep(wait_time)
\* is entered
WaitHitStore(t) ==
    /\ pc[t] = "hit_store"
    /\ rate_limit_hits' = tmp[t] + 1
    /\ hits_done' = hits_done + 1
    /\ wake' = [wake EXCEPT ![t] = clock + result[t].wait]
    /\ pc' = [pc EXCEPT ![t] = "sleep"]
    /\ tmp' = [tmp EXCEPT ![t] = 0]
    /\ result' = [result EXCEPT ![t] = NoResult]
    /\ snap' = NoSnap
    /\ UNCHANGED <<limits, history, logs, total_requests, total_tokens, total_wait_time,
                   lock, clock, op, arg, ret, wait_done>>

\* line 171 returns once wait_time has passed; lines 158-159, 88-89: the loop
\* starts over with the next check_rate_limit
WaitWake(t) ==
    /\ pc[t] = "sleep"
    /\ clock >= wake[t]
    /\ Clean(t)
    /\ pc' = [pc EXCEPT ![t] = "check_gates"]
    /\ wake' = [wake EXCEPT ![t] = 0]
    /\ snap' = NoSnap
    /\ UNCHANGED <<limits, history, stats, clock, op, arg, result, tmp, ret, ghost>>

\* record_request with appendleft: new entries are put at the front
RecordFrom_appendleft(t, at) ==
    /\ pc[t] = at
    /\ total_requests < MaxRecords
    /\ lock = 0
    /\ lock' = t
    /\ \E k \in TokensUsed :
        /\ minute_requests' = <<clock>> \o minute_requests
        /\ minute_tokens' = <<(<<clock, k>>)>> \o minute_tokens
        /\ day_requests' = <<clock>> \o day_requests
        /\ day_tokens' = <<(<<clock, k>>)>> \o day_tokens
        /\ history' = Append(history, <<clock, k>>)
        /\ arg' = [arg EXCEPT ![t] = k]
    /\ pc' = [pc EXCEPT ![t] = "record_stats"]
    /\ op' = [op EXCEPT ![t] = "record"]
    /\ result' = [result EXCEPT ![t] = NoResult]
    /\ ret' = [ret EXCEPT ![t] = "none"]
    /\ snap' = NoSnap
    /\ UNCHANGED <<limits, stats, clock, tmp, wake, ghost>>

\* record_request without `with self.lock`
RecordFrom_unlocked(t, at) ==
    /\ pc[t] = at
    /\ total_requests < MaxRecords
    /\ lock' = lock
    /\ \E k \in TokensUsed :
        /\ minute_requests' = Append(minute_requests, clock)
        /\ minute_tokens' = Append(minute_tokens, <<clock, k>>)
        /\ day_requests' = Append(day_requests, clock)
        /\ day_tokens' = Append(day_tokens, <<clock, k>>)
        /\ history' = Append(history, <<clock, k>>)
        /\ arg' = [arg EXCEPT ![t] = k]
    /\ pc' = [pc EXCEPT ![t] = "record_stats"]
    /\ op' = [op EXCEPT ![t] = "record"]
    /\ result' = [result EXCEPT ![t] = NoResult]
    /\ ret' = [ret EXCEPT ![t] = "none"]
    /\ snap' = NoSnap
    /\ UNCHANGED <<limits, stats, clock, tmp, wake, ghost>>

\* record_request(tokens_used) entered by a thread that is at `at`; lines
\* 128-137: with self.lock: now = time.time(); the four appends
RecordFrom(t, at) ==
    /\ pc[t] = at
    /\ total_requests < MaxRecords
    /\ lock = 0
    /\ lock' = t
    /\ \E k \in TokensUsed :
        /\ minute_requests' = Append(minute_requests, clock)
        /\ minute_tokens' = Append(minute_tokens, <<clock, k>>)
        /\ day_requests' = Append(day_requests, clock)
        /\ day_tokens' = Append(day_tokens, <<clock, k>>)
        /\ history' = Append(history, <<clock, k>>)
        /\ arg' = [arg EXCEPT ![t] = k]
    /\ pc' = [pc EXCEPT ![t] = "record_stats"]
    /\ op' = [op EXCEPT ![t] = "record"]
    /\ result' = [result EXCEPT ![t] = NoResult]
    /\ ret' = [ret EXCEPT ![t] = "none"]
    /\ snap' = NoSnap
    /\ UNCHANGED <<limits, stats, clock, tmp, wake, ghost>>

\* a caller invokes record_request(tokens_used)
RecordAppend(t) == RecordFrom(t, "idle")

\* total_tokens counts calls instead of tokens
RecordStats_unit(t) ==
    /\ pc[t] = "record_stats"
    /\ lock = t
    /\ lock' = 0
    /\ total_requests' = total_requests + 1
    /\ total_tokens' = total_tokens + 1
    /\ pc' = [pc EXCEPT ![t] = "idle"]
    /\ op' = [op EXCEPT ![t] = "none"]
    /\ arg' = [arg EXCEPT ![t] = 0]
    /\ snap' = NoSnap
    /\ UNCHANGED <<limits, history, logs, total_wait_time, rate_limit_hits, clock,
                   result, tmp, wake, ret, ghost>>

\* lines 139-141: the two totals; the lock is released
RecordStats(t) ==
    /\ pc[t] = "record_stats"
    /\ lock = t
    /\ lock' = 0
    /\ total_requests' = total_requests + 1
    /\ total_tokens' = total_tokens + arg[t]
    /\ pc' = [pc EXCEPT ![t] = "idle"]
    /\ op' = [op EXCEPT ![t] = "none"]
    /\ arg' = [arg EXCEPT ![t] = 0]
    /\ snap' = NoSnap
    /\ UNCHANGED <<limits, history, logs, total_wait_time, rate_limit_hits, clock,
                   result, tmp, wake, ret, ghost>>

\* the dict is built from the logs as they were before _clean_old_entries
GetUsageStats_stale(t) ==
    /\ pc[t] = "idle"
    /\ lock = 0
    /\ minute_requests' = clean_requests(minute_requests, clock, minute_window)
    /\ minute_tokens' = clean_tokens(minute_tokens, clock, minute_window)
    /\ day_requests' = clean_requests(day_requests, clock, day_window)
    /\ day_tokens' = clean_tokens(day_tokens, clock, day_window)
    /\ snap' = usage_stats(minute_requests, minute_tokens, day_requests,
                           day_tokens, total_requests, total_tokens,
                           rate_limit_hits, total_wait_time, limits)
    /\ ret' = [ret EXCEPT ![t] = "stats"]
    /\ result' = [result EXCEPT ![t] = NoResult]
    /\ UNCHANGED <<limits, history, stats, lock, clock, pc, op, arg, tmp, wake,
                   ghost>>

\* lines 173-191: with self.lock: self._clean_old_entries(); return {...}
GetUsageStats(t) ==
    /\ pc[t] = "idle"
    /\ lock = 0
    /\ minute_requests' = clean_requests(minute_requests, clock, minute_window)
    /\ minute_tokens' = clean_tokens(minute_tokens, clock, minute_window)
    /\ day_requests' = clean_requests(day_requests, clock, day_window)
    /\ day_tokens' = clean_tokens(day_tokens, clock, day_window)
    /\ snap' = usage_stats(minute_requests', minute_tokens', day_requests',
                           day_tokens', total_requests, total_tokens,
                           rate_limit_hits, total_wait_time, limits)
    /\ ret' = [ret EXCEPT ![t] = "stats"]
    /\ result' = [result EXCEPT ![t] = NoResult]
    /\ UNCHANGED <<limits, history, stats, lock, clock, pc, op, arg, tmp, wake,
                   ghost>>

\* the retry loop of wait_if_needed after its check_rate_limit returned
WaitStep(t) ==
    \/ WaitProceed(t)
    \/ WaitGiveUpLoad(t)
    \/ WaitGiveUpStore(t)
    \/ WaitAccLoad(t)
    \/ WaitAccStore(t)
    \/ WaitHitLoad(t)
    \/ WaitHitStore(t)
    \/ WaitWake(t)

\* one caller: calls into the limiter never overlap
Next ==
    \/ Tick
    \/ CallCheck(1)
    \/ CallWait(1)
    \/ CheckGates(1)
    \/ WaitStep(1)
    \/ RecordAppend(1)
    \/ RecordStats(1)
    \/ GetUsageStats(1)

Spec == Init /\ [][Next]_vars

\* time passes in the runs with several threads
ConcTick ==
    /\ \E p \in ConcTimePoints : p > clock /\ clock' = p
    /\ snap' = NoSnap
    /\ UNCHANGED <<limits, history, logs, stats, lock, locals, ghost>>

\* a caller invokes wait_if_needed while other callers are inside the limiter
ConcCallWait(t) == \E e \in ConcEstimates : EnterCheck(t, "wait", e)

ConcInit == Init /\ limits = Limits(2, 500, 2, 500)

\* every thread calls wait_if_needed and record_request, concurrently
ConcNext ==
    \/ ConcTick
    \/ \E t \in Threads :
        \/ ConcCallWait(t)
        \/ CheckGates(t)
        \/ WaitStep(t)
        \/ RecordAppend(t)
        \/ RecordStats(t)
        \/ GetUsageStats(t)

ConcSpec == ConcInit /\ [][ConcNext]_vars

\* explain_code (code_explainer.py): estimated_tokens is computed and
\* rate_limiter.wait_if_needed(estimated_tokens) is entered
CallExplain(t) == \E e \in ConcEstimates : EnterCheck(t, "explain", e)

\* claude_client.messages.create(...) returned a response: record_request
ExplainRecord(t) == RecordFrom(t, "api_call")

\* claude_client.messages.create(...) raised: except Exception returns the
\* error text, nothing is recorded
ApiRaise(t) ==
    /\ pc[t] = "api_call"
    /\ pc' = [pc EXCEPT ![t] = "idle"]
    /\ ret' = [ret EXCEPT ![t] = "api_error"]
    /\ op' = [op EXCEPT ![t] = "none"]
    /\ arg' = [arg EXCEPT ![t] = 0]
    /\ snap' = NoSnap
    /\ UNCHANGED <<limits, history, logs, stats, lock, clock, result, tmp, wake,
                   ghost>>

\* the limiter of RATE_LIMITERS, its ceilings scaled down
ProtoInit == Constructed(Limits(1, 500, 1, 500))

\* every thread runs explain_code: wait_if_needed, the API call, record_request
ProtoNext ==
    \/ ConcTick
    \/ \E t \in Threads :
        \/ CallExplain(t)
        \/ CheckGates(t)
        \/ WaitStep(t)
        \/ ExplainRecord(t)
        \/ ApiRaise(t)
        \/ RecordStats(t)

ProtoSpec == ProtoInit /\ [][ProtoNext]_vars

\* ================================================================ claims
\* the sum of the token counts of a token log
TokenTotal(q) ==
    LET S[i \in 0..Len(q)] == IF i = 0 THEN 0 ELSE S[i - 1] + q[i][2]
    IN S[Len(q)]

GateOrder == <<"requests_per_minute", "tokens_per_minute",
               "requests_per_day", "tokens_per_day">>

\* gate `kind` is violated by the logs as they are, for estimate e
Violated(kind, e) ==
    CASE kind = "requests_per_minute" ->
            Len(minute_requests) >= limits.requests_per_minute
      [] kind = "tokens_per_minute" ->
            TokenTotal(minute_tokens) + e > limits.tokens_per_minute
      [] kind = "requests_per_day" ->
            Len(day_requests) >= limits.requests_per_day
      [] kind = "tokens_per_day" ->
            TokenTotal(day_tokens) + e > limits.tokens_per_day

\* thread t executes lines 90-118 of check_rate_limit in this step
GatesStep(t) == pc[t] = "check_gates" /\ pc'[t] # "check_gates"

\* thread t takes a step of its own
Moves(t) == pc'[t] # pc[t]

Floor0(x) == IF x < 0 THEN 0 ELSE x

\* C1: whenever check_rate_limit returns, it admits with (True, 0, None)
\* exactly when none of the four gates is violated by the pruned logs, and it
\* rejects with the kind of the first gate, in the order requests_per_minute,
\* tokens_per_minute, requests_per_day, tokens_per_day, that is violated.
C1_Precedence ==
    [][\A t \in Threads : GatesStep(t) =>
        LET r == result'[t]
            e == arg[t]
        IN /\ r.ok <=> \A i \in 1..4 : ~Violated(GateOrder[i], e)
           /\ r.exc = "none" =>
               /\ r.ok => r.wait = 0 /\ r.kind = "none"
               /\ ~r.ok => \E i \in 1..4 :
                     /\ r.kind = GateOrder[i]
                     /\ Violated(GateOrder[i], e)
                     /\ \A j \in 1..(i - 1) : ~Violated(GateOrder[j], e)]_vars

\* a rejection that names requests_per_minute while the minute token gate and
\* both day gates are violated too
C1_Witness ==
    \E t \in Threads :
        /\ pc[t] = "wait_branch"
        /\ result[t].kind = "requests_per_minute"
        /\ \A i \in 1..4 : Violated(GateOrder[i], arg[t])

\* C2: whenever check_rate_limit returns, it rejects with kind
\* requests_per_minute exactly when the pruned minute request log holds at
\* least requests_per_minute entries, and the wait is then 60 minus the age of
\* the oldest entry of that log, floored at 0.
C2_RequestGate ==
    [][\A t \in Threads : GatesStep(t) /\ result'[t].exc = "none" =>
        LET r == result'[t]
        IN /\ r.kind = "requests_per_minute"
                <=> Len(minute_requests) >= limits.requests_per_minute
           /\ r.kind = "requests_per_minute" =>
                /\ ~r.ok
                /\ r.wait = Floor0(60 - (clock - minute_requests[1]))]_vars

\* limit 2, two calls recorded at t=0, the check at t=1: wait 59
C2_Witness ==
    \E t \in Threads :
        /\ pc[t] = "wait_branch"
        /\ limits.requests_per_minute = 2
        /\ minute_requests = <<0, 0>>
        /\ clock = 1
        /\ result[t] = Returned(FALSE, 59, "requests_per_minute")

\* C3: check_rate_limit rejects on a token gate only when the sum of that
\* log's token counts plus the estimate is strictly greater than the ceiling;
\* a sum equal to the ceiling passes, and the call is admitted when both
\* token sums are at most their ceilings and no request gate is violated.
C3_TokenBoundary ==
    [][\A t \in Threads : GatesStep(t) =>
        LET r == result'[t]
            e == arg[t]
        IN /\ r.kind = "tokens_per_minute"
                => TokenTotal(minute_tokens) + e > limits.tokens_per_minute
           /\ r.kind = "tokens_per_day"
                => TokenTotal(day_tokens) + e > limits.tokens_per_day
           /\ ( /\ Len(minute_requests) < limits.requests_per_minute
                /\ Len(day_requests) < limits.requests_per_day
                /\ TokenTotal(minute_tokens) + e <= limits.tokens_per_minute
                /\ TokenTotal(day_tokens) + e <= limits.tokens_per_day )
                => r.ok]_vars

\* 480 recorded, ceiling 500, estimate 20: admitted at the ceiling
C3_Witness ==
    \E t \in Threads :
        /\ pc[t] = "wait_branch"
        /\ result[t].ok
        /\ arg[t] = 20
        /\ minute_tokens # <<>>
        /\ TokenTotal(minute_tokens) + arg[t] = limits.tokens_per_minute

\* the wait of a token gate as the claim words it: window minus age, 0 for an
\* empty log
TokenWait(q, window) ==
    IF q # <<>> THEN window - (clock - q[1][1]) ELSE 0

\* C4 as stated: when a token gate rejects, the wait is the window length
\* minus the age of the oldest token entry if the log is non-empty, else 0.
C4_AsStated ==
    [][\A t \in Threads : GatesStep(t) =>
        LET r == result'[t]
        IN /\ r.kind = "tokens_per_minute" => r.wait = TokenWait(minute_tokens, 60)
           /\ r.kind = "tokens_per_day" => r.wait = TokenWait(day_tokens, 86400)]_vars

\* C4 (amended): when a token gate rejects, the wait is the window length
\* minus the age of the oldest token entry, floored at 0, if the log is
\* non-empty, and the whole window length (60 or 86400) if the log is empty.
C4_TokenWait ==
    [][\A t \in Threads : GatesStep(t) =>
        LET r == result'[t]
            w(q, window) == IF q # <<>> THEN Floor0(TokenWait(q, window))
                            ELSE window
        IN /\ r.kind = "tokens_per_minute" => r.wait = w(minute_tokens, 60)
           /\ r.kind = "tokens_per_day" => r.wait = w(day_tokens, 86400)]_vars

\* the estimate alone exceeds the minute token ceiling, nothing is recorded,
\* and time has moved on: the wait is the whole minute
C4_Witness ==
    \E t \in Threads :
        /\ pc[t] = "wait_branch"
        /\ minute_tokens = <<>>
        /\ clock > 0
        /\ arg[t] > limits.tokens_per_minute
        /\ result[t] = Returned(FALSE, 60, "tokens_per_minute")

\* C5: a rejection whose wait exceeds max_wait_time makes wait_if_needed
\* return False without sleeping: its only effect after the check is one
\* increment of rate_limit_hits by 1; total_wait_time, the request and token
\* totals and the four logs stay as they are.
C5_GiveUp ==
    [][\A t \in Threads :
        /\ ( /\ pc[t] = "wait_branch" /\ Moves(t)
             /\ ~result[t].ok /\ result[t].wait > 30 )
            => /\ pc'[t] = "giveup_store"
               /\ UNCHANGED <<logs, stats>>
        /\ (pc[t] = "giveup_store" /\ Moves(t))
            => /\ pc'[t] = "idle" /\ ret'[t] = "false"
               /\ rate_limit_hits' = rate_limit_hits + 1
               /\ UNCHANGED <<logs, total_wait_time, total_requests, total_tokens>>
        /\ (ret'[t] = "false" /\ ret[t] # "false") => pc[t] = "giveup_store"]_vars

\* a recorded call at t=0, wait_if_needed at t=1 (wait 59): it has returned
\* False, one hit is counted and no wait is accumulated
C5_Witness ==
    \E t \in Threads :
        /\ pc[t] = "idle" /\ ret[t] = "false"
        /\ rate_limit_hits = 1 /\ total_wait_time = 0
        /\ minute_requests # <<>>

\* C6: a rejected attempt of wait_if_needed whose wait w is at most
\* max_wait_time adds w to total_wait_time, increments rate_limit_hits by 1
\* and sleeps until w has passed; only then the next check_rate_limit runs;
\* and wait_if_needed returns True only from a check that admitted.
C6_RetryAttempt ==
    [][\A t \in Threads :
        /\ ( /\ pc[t] = "wait_branch" /\ Moves(t)
             /\ ~result[t].ok /\ result[t].wait <= 30 )
            => pc'[t] = "acc_store" /\ UNCHANGED <<logs, stats>>
        /\ (pc[t] = "acc_store" /\ Moves(t))
            => /\ pc'[t] = "hit_load"
               /\ total_wait_time' = total_wait_time + result[t].wait
               /\ UNCHANGED <<logs, rate_limit_hits, total_requests, total_tokens>>
        /\ (pc[t] = "hit_load" /\ Moves(t))
            => pc'[t] = "hit_store" /\ UNCHANGED <<logs, stats>>
        /\ (pc[t] = "hit_store" /\ Moves(t))
            => /\ pc'[t] = "sleep"
               /\ rate_limit_hits' = rate_limit_hits + 1
               /\ wake'[t] = clock + result[t].wait
               /\ UNCHANGED <<logs, total_wait_time, total_requests, total_tokens>>
        /\ (pc[t] = "sleep" /\ Moves(t))
            => pc'[t] = "check_gates" /\ clock >= wake[t] /\ lock' = t
        /\ (ret'[t] = "true" /\ ret[t] # "true")
            => pc[t] = "wait_branch" /\ result[t].ok]_vars

\* a call of 480 tokens recorded at t=0, wait_if_needed(30) at t=31 rejected
\* on tokens_per_minute: wait 29 is accumulated, one hit counted, the sleep ends at 60
C6_Witness ==
    \E t \in Threads :
        /\ pc[t] = "sleep" /\ wake[t] = 60
        /\ total_wait_time = 29 /\ rate_limit_hits = 1

\* C7: when the check inside wait_if_needed admits, wait_if_needed returns
\* True at once, and neither the check nor the return changes
\* rate_limit_hits, total_wait_time, total_requests or total_tokens.
C7_AdmitFrame ==
    [][\A t \in Threads :
        /\ (op'[t] = "wait" /\ pc'[t] = "check_gates" /\ Moves(t))
            => UNCHANGED stats
        /\ (op[t] = "wait" /\ pc[t] = "check_gates" /\ Moves(t))
            => UNCHANGED stats
        /\ (pc[t] = "wait_branch" /\ result[t].ok /\ Moves(t))
            => pc'[t] = "idle" /\ ret'[t] = "true" /\ UNCHANGED stats]_vars

\* wait_if_needed has returned True after two recorded calls and no hit
C7_Witness ==
    \E t \in Threads :
        /\ pc[t] = "idle" /\ ret[t] = "true"
        /\ total_requests = 2 /\ total_tokens = 200
        /\ rate_limit_hits = 0 /\ total_wait_time = 0

\* a is b with some entries removed from its front
IsSuffix(a, b) ==
    \E k \in 0..Len(b) : a = SubSeq(b, k + 1, Len(b))

\* thread t executes a part of check_rate_limit in this step
CheckStep(t) ==
    \/ pc[t] # "check_gates" /\ pc'[t] = "check_gates"
    \/ GatesStep(t)

\* C8: check_rate_limit only prunes: each of its steps leaves every log a
\* suffix of what it was (nothing is appended) and leaves the four lifetime
\* counters unchanged, whether it admits, rejects or raises.
C8_CheckFrame ==
    [][\A t \in Threads : CheckStep(t) =>
        /\ IsSuffix(minute_requests', minute_requests)
        /\ IsSuffix(minute_tokens', minute_tokens)
        /\ IsSuffix(day_requests', day_requests)
        /\ IsSuffix(day_tokens', day_tokens)
        /\ UNCHANGED stats]_vars

\* a check has rejected after it pruned the minute logs: the day logs still
\* hold the two recorded calls, the totals are those of the two records
C8_Witness ==
    \E t \in Threads :
        /\ pc[t] = "idle" /\ ret[t] = "triple" /\ ~result[t].ok
        /\ minute_requests = <<>> /\ Len(day_requests) = 2
        /\ total_requests = 2

\* C9: record_request(tokens_used) appends the same timestamp to both request
\* logs and (timestamp, tokens_used) to both token logs, then adds 1 to
\* total_requests and tokens_used to total_tokens; rate_limit_hits and
\* total_wait_time are not touched, and no quota is consulted.
C9_Record ==
    [][\A t \in Threads :
        /\ (pc[t] = "idle" /\ pc'[t] = "record_stats")
            => /\ minute_requests' = Append(minute_requests, clock)
               /\ day_requests' = Append(day_requests, clock)
               /\ minute_tokens' = Append(minute_tokens, <<clock, arg'[t]>>)
               /\ day_tokens' = Append(day_tokens, <<clock, arg'[t]>>)
               /\ UNCHANGED stats
        /\ (pc[t] = "record_stats" /\ Moves(t))
            => /\ total_requests' = total_requests + 1
               /\ total_tokens' = total_tokens + arg[t]
               /\ UNCHANGED <<logs, rate_limit_hits, total_wait_time>>]_vars

\* two calls of 480 tokens recorded in the same minute under a ceiling of 500
\* tokens per minute: the second record went through with the quota exceeded
C9_Witness ==
    /\ \A t \in Threads : pc[t] = "idle"
    /\ limits.tokens_per_minute = 500
    /\ Len(minute_tokens) = 2 /\ Len(day_tokens) = 2
    /\ minute_requests = day_requests
    /\ total_requests = 2 /\ total_tokens = 960

\* C10: no increment is lost: whenever no thread is inside wait_if_needed,
\* rate_limit_hits equals the number of rejected attempts that were counted
\* and total_wait_time the sum of the waits they accumulated.
C10_NoLostUpdate ==
    (\A t \in Threads : pc[t] = "idle")
        => rate_limit_hits = hits_done /\ total_wait_time = wait_done

\* the timestamps of a token log
Stamps(q) == [i \in 1..Len(q) |-> q[i][1]]

\* C11: recording is atomic under concurrency.  A record that has appended
\* but not yet counted exists only under the lock of its thread, and a check
\* reads the logs only while it holds that lock; so whenever the lock is free
\* total_requests is the number of record_request calls made and total_tokens
\* the sum of their tokens, a snapshot reports exactly those totals, and at
\* all times each token log is the recorded history without a pruned front
\* and each request log holds the timestamps of its token log (every record
\* added one entry to each of the four logs).
C11_AtomicRecord ==
    /\ \A t \in Threads : pc[t] = "record_stats" => lock = t
    /\ \A t \in Threads : pc[t] = "check_gates" => lock = t
    /\ lock = 0 => /\ total_requests = Len(history)
                   /\ total_tokens = TokenTotal(history)
    /\ snap.taken => /\ snap.total_requests = Len(history)
                     /\ snap.total_tokens = TokenTotal(history)
                     /\ snap.current_day_requests = Len(day_tokens)
                     /\ snap.current_minute_tokens = TokenTotal(minute_tokens)
    /\ IsSuffix(day_tokens, history)
    /\ IsSuffix(minute_tokens, day_tokens)
    /\ minute_requests = Stamps(minute_tokens)
    /\ day_requests = Stamps(day_tokens)

\* two threads have recorded, one of them while the other was inside
\* wait_if_needed, and a snapshot taken next to a sleeping caller reports both
C11_Witness ==
    /\ snap.taken
    /\ snap.total_requests = 2 /\ snap.total_tokens = 580
    /\ Len(history) = 2
    /\ \E t \in Threads : pc[t] = "sleep"

\* C12: the lifetime counters never decrease: no step lowers total_requests,
\* total_tokens, rate_limit_hits or total_wait_time.
C12_Monotonic ==
    [][/\ total_requests' >= total_requests
       /\ total_tokens' >= total_tokens
       /\ rate_limit_hits' >= rate_limit_hits
       /\ total_wait_time' >= total_wait_time]_vars

\* C13: no thread owns the lock while it sleeps in wait_if_needed (the lock
\* is owned only inside check_rate_limit and record_request), and while a
\* caller sleeps every other caller can enter check_rate_limit,
\* wait_if_needed, record_request and get_usage_stats, and can finish the
\* locked block it is in.
C13_SleepUnlocked ==
    /\ \A t \in Threads :
          lock = t => pc[t] \in {"check_gates", "record_stats"}
    /\ \A t \in Threads : pc[t] = "sleep" =>
          /\ lock # t
          /\ \A u \in Threads \ {t} :
                /\ pc[u] = "idle" =>
                      /\ ENABLED CallCheck(u)
                      /\ ENABLED ConcCallWait(u)
                      /\ ENABLED GetUsageStats(u)
                      /\ total_requests < MaxRecords => ENABLED RecordAppend(u)
                /\ pc[u] = "check_gates" => ENABLED CheckGates(u)
                /\ pc[u] = "record_stats" => ENABLED RecordStats(u)

\* thread 1 sleeps while thread 2 owns the lock in the middle of record_request
C13_Witness ==
    /\ pc[1] = "sleep" /\ clock < wake[1]
    /\ pc[2] = "record_stats" /\ lock = 2

\* the number of recorded requests younger than `window` now
Recent(window) ==
    Cardinality({i \in 1..Len(history) : clock - history[i][1] < window})

\* C14: with every caller following wait_if_needed -> API call ->
\* record_request, the number of recorded requests with a timestamp inside
\* the current 60-unit window never exceeds requests_per_minute, and the
\* number inside the 86400-unit window never exceeds requests_per_day.
C14_QuotaEnforced ==
    /\ Recent(minute_window) <= limits.requests_per_minute
    /\ Recent(day_window) <= limits.requests_per_day

\* the recorded entries that are at most `window` old now
InWindow(window) ==
    SelectSeq(history, LAMBDA x : clock - x[1] <= window)

\* thread t runs _clean_old_entries in this step
PruneStep(t) ==
    \/ pc[t] # "check_gates" /\ pc'[t] = "check_gates"
    \/ pc[t] = "idle" /\ snap'.taken

\* C15: pruning is exact: right after _clean_old_entries has run at time
\* now, each minute log holds exactly the recorded entries whose timestamp is
\* at most 60 before now and each day log exactly those at most 86400 before
\* now, in the order they were recorded.
C15_PruneExact ==
    [][\A t \in Threads : PruneStep(t) =>
          /\ minute_tokens' = InWindow(minute_window)
          /\ minute_requests' = Stamps(InWindow(minute_window))
          /\ day_tokens' = InWindow(day_window)
          /\ day_requests' = Stamps(InWindow(day_window))]_vars

\* two calls recorded at t = 0 are gone from the minute logs at t = 61, still
\* in the day logs, and the check at t = 61 admits
C15_Witness ==
    /\ Len(history) = 2 /\ history[1][1] = 0 /\ history[2][1] = 0
    /\ clock = 61
    /\ minute_requests = <<>> /\ minute_tokens = <<>>
    /\ Len(day_requests) = 2 /\ Len(day_tokens) = 2
    /\ pc[1] = "idle" /\ ret[1] = "triple" /\ result[1].ok

\* what check_rate_limit(e) returns at the instant tau if nothing is
\* recorded until then
CheckAt(tau, e) ==
    check_rate_limit(minute_requests, minute_tokens, day_requests, day_tokens,
                     tau, e, limits)

\* thread t's check_rate_limit returns a rejection in this step
Rejects(t) ==
    GatesStep(t) /\ result'[t].exc = "none" /\ ~result'[t].ok

\* the instants from now up to, not including, now + w at which a later check
\* is tried
Probes(now, w) ==
    {tau \in TimePoints \cup {now, now + (w \div 2), now + w - 1} :
        now <= tau /\ tau < now + w}

\* C16 as stated: when check_rate_limit rejects with wait w at time t and
\* nothing is recorded until t + w, the check with the same estimate at t + w
\* admits.
C16_AsStated ==
    [][\A t \in Threads : Rejects(t) =>
          CheckAt(clock + result'[t].wait, arg[t]).ok]_vars

\* C16, amended: when check_rate_limit rejects with wait w at time t and
\* nothing is recorded meanwhile, no check with the same estimate earlier
\* than t + w admits: the wait is a lower bound on the time to admission.
C16_WaitLowerBound ==
    [][\A t \in Threads : Rejects(t) =>
          \A tau \in Probes(clock, result'[t].wait) :
              ~CheckAt(tau, arg[t]).ok]_vars

\* a check at t = 1 was rejected by the minute token gate with wait 59: the
\* instant 31 lies before the end of the wait
C16_Witness ==
    /\ clock = 1
    /\ pc[1] = "idle" /\ ret[1] = "triple"
    /\ ~result[1].ok /\ result[1].wait = 59
    /\ result[1].kind = "tokens_per_minute"
    /\ 31 \in Probes(clock, result[1].wait)

\* one of the four ceilings is configured as zero
ZeroCeiling ==
    \/ limits.requests_per_minute = 0 \/ limits.tokens_per_minute = 0
    \/ limits.requests_per_day = 0 \/ limits.tokens_per_day = 0

\* C17: with a ceiling configured as zero no call raises and none is
\* admitted: check_rate_limit ends with a rejection triple, wait_if_needed
\* with False, for every estimate and every history, the empty one included.
C17_ZeroCeiling ==
    ZeroCeiling =>
        \A t \in Threads :
            /\ ret[t] # "IndexError"
            /\ ret[t] # "true"
            /\ ret[t] = "triple" => ~result[t].ok

\* one of the four ceilings is configured as zero or less
NonPositiveCeiling ==
    \/ limits.requests_per_minute <= 0 \/ limits.tokens_per_minute <= 0
    \/ limits.requests_per_day <= 0 \/ limits.tokens_per_day <= 0

\* C18: misconfiguration fails fast: on a limiter with a ceiling of zero or
\* less, and for a negative token estimate, check_rate_limit (alone or inside
\* wait_if_needed) ends in an error instead of returning an admission or a
\* rejection.
C18_FailFast ==
    [][\A t \in Threads :
          GatesStep(t) /\ (arg[t] < 0 \/ NonPositiveCeiling)
              => result'[t].exc # "none"]_vars

\* estimates smaller than e
Smaller(e) == {e2 \in Estimates \cup {0, e \div 2, e - 1} : e2 < e}

\* C19: admission is monotonic in the estimate: when check_rate_limit admits
\* estimate E, the same check on the same logs at the same time admits every
\* smaller estimate.
C19_Monotonic ==
    [][\A t \in Threads : GatesStep(t) /\ result'[t].ok =>
          \A e2 \in Smaller(arg[t]) :
              check_gates(minute_requests, minute_tokens, day_requests,
                          day_tokens, clock, e2, limits).ok]_vars

\* wait_if_needed(30) was admitted with one call of 100 tokens in the logs;
\* 20 and -5 are smaller estimates
C19_Witness ==
    /\ pc[1] = "wait_branch" /\ result[1].ok /\ arg[1] = 30
    /\ Len(minute_tokens) = 1 /\ minute_tokens[1][2] = 100
    /\ {-5, 20} \subseteq Smaller(arg[1])

\* C20: get_usage_stats is idempotent and append-free: a snapshot taken
\* directly after another one (same time, no step between) returns the same
\* dict of current counts, token sums and lifetime counters, and every
\* snapshot leaves the four lifetime counters as they are and each log equal
\* to itself or to itself without some entries at the front.
C20_Snapshot ==
    [][snap'.taken =>
          /\ snap.taken => snap' = snap
          /\ IsSuffix(minute_requests', minute_requests)
          /\ IsSuffix(minute_tokens', minute_tokens)
          /\ IsSuffix(day_requests', day_requests)
          /\ IsSuffix(day_tokens', day_tokens)
          /\ UNCHANGED <<stats, history>>]_vars

\* a snapshot at t = 61 has pruned one of two recorded calls from the minute
\* logs and reports one rejected attempt; the next snapshot can follow at once
C20_Witness ==
    /\ snap.taken /\ clock = 61
    /\ snap.total_requests = 2
    /\ snap.current_minute_requests = 1 /\ snap.current_day_requests = 2
    /\ snap.rate_limit_hits = 1
    /\ ENABLED GetUsageStats(1)

\* C21: every call of wait_if_needed returns True or False: the step that
\* ends a call of wait_if_needed ends it with one of these two values.
C21_Returns ==
    [][\A t \in Threads :
          op[t] = "wait" /\ op'[t] = "none" => ret'[t] \in {"true", "false"}]_vars

\* a sequence of timestamps in ascending order
Ascending(q) == \A i \in 1..Len(q) - 1 : q[i] <= q[i + 1]

\* in this step the sequence of timestamps q either loses entries at its
\* front or gains one entry at its back that is not older than its last one
FrontOrBack(q, qn) ==
    \/ IsSuffix(qn, q)
    \/ /\ Len(qn) = Len(q) + 1
       /\ SubSeq(qn, 1, Len(q)) = q
       /\ q # <<>> => qn[Len(qn)] >= q[Len(q)]

\* C22: each of the four logs is sorted ascending by timestamp in every
\* state, with records coming from several threads: a step only removes
\* entries from the front of a log or appends one entry that is not older
\* than the last one.
C22_Sorted ==
    /\ [](/\ Ascending(minute_requests)
          /\ Ascending(Stamps(minute_tokens))
          /\ Ascending(day_requests)
          /\ Ascending(Stamps(day_tokens)))
    /\ [][/\ FrontOrBack(minute_requests, minute_requests')
          /\ FrontOrBack(Stamps(minute_tokens), Stamps(minute_tokens'))
          /\ FrontOrBack(day_requests, day_requests')
          /\ FrontOrBack(Stamps(day_tokens), Stamps(day_tokens'))]_vars

\* thread 2 has just appended a second, later entry while thread 1 is inside
\* wait_if_needed
C22_Witness ==
    /\ Len(day_requests) = 2 /\ day_requests[1] < day_requests[2]
    /\ Len(minute_tokens) = 2 /\ minute_tokens[1][1] < minute_tokens[2][1]
    /\ pc[2] = "record_stats"
    /\ pc[1] # "idle"

\* C23: explain_code records only a call that was admitted and completed.
\* A thread is at the API call only after its wait_if_needed returned True;
\* when wait_if_needed returns False the thread is back at the start without
\* an API call and without a record; when the API call raises nothing is
\* recorded; and every record is started by a thread whose wait_if_needed
\* returned True and whose API call returned.
C23_RecordAfterAdmission ==
    /\ [](\A t \in Threads : pc[t] = "api_call" => ret[t] = "true")
    /\ [][\A t \in Threads :
            /\ pc'[t] = "api_call" /\ pc[t] # "api_call"
                   => pc[t] = "wait_branch" /\ result[t].ok
            /\ ret'[t] = "false" /\ ret[t] # "false"
                   => pc'[t] = "idle" /\ UNCHANGED <<logs, history,
                                                       total_requests, total_tokens>>
            /\ ret'[t] = "api_error" /\ ret[t] # "api_error"
                   => /\ pc[t] = "api_call" /\ pc'[t] = "idle"
                      /\ UNCHANGED <<logs, history, stats>>
            /\ pc'[t] = "record_stats" /\ pc[t] # "record_stats"
                   => pc[t] = "api_call" /\ ret[t] = "true"]_vars
    /\ [][history' # history =>
            \E t \in Threads : pc[t] = "api_call" /\ pc'[t] = "record_stats"]_vars

\* thread 1 was refused (wait_if_needed returned False), thread 2 was admitted
\* and its API call raised; the one recorded call is an earlier admitted one
C23_Witness ==
    /\ pc[1] = "idle" /\ ret[1] = "false"
    /\ pc[2] = "idle" /\ ret[2] = "api_error"
    /\ Len(history) = 1 /\ total_requests = 1

\* the fraction p is (count / ceiling) * 100, and is 0 when the ceiling is 0
IsUtilization(p, count, ceiling) ==
    /\ p.den > 0
    /\ IF ceiling = 0 THEN p.num = 0
       ELSE p.num * ceiling = count * 100 * p.den

\* C24: the utilization percentages of a snapshot are (number of requests
\* recorded within the last 60 / requests_per_minute) * 100 and (number
\* within the last 86400 / requests_per_day) * 100, and 0, without a division
\* by zero, when that ceiling is 0.
C24_Percentages ==
    snap.taken =>
        /\ IsUtilization(snap.minute_limit_percentage,
                         Len(InWindow(minute_window)),
                         limits.requests_per_minute)
        /\ IsUtilization(snap.day_limit_percentage,
                         Len(InWindow(day_window)),
                         limits.requests_per_day)

\* a snapshot with requests_per_minute = 0 and one call in the minute window
\* reports 0 percent for the minute and 1 / 2 * 100 for the day
C24_Witness ==
    /\ snap.taken
    /\ limits.requests_per_minute = 0
    /\ snap.current_minute_requests = 1
    /\ snap.minute_limit_percentage.num = 0
    /\ snap.day_limit_percentage = [num |-> 100, den |-> 2]

\* C25: whenever the lock is free the four logs are coupled: the request
\* log of each window has the length and the timestamps of its token log, the
\* minute logs are the day logs without some entries at the front, and
\* minute requests <= day requests <= total_requests and the day token sum
\* <= total_tokens.
C25_Coupled ==
    lock = 0 =>
        /\ Len(minute_requests) = Len(minute_tokens)
        /\ \A i \in 1..Len(minute_requests) :
              minute_requests[i] = minute_tokens[i][1]
        /\ Len(day_requests) = Len(day_tokens)
        /\ \A i \in 1..Len(day_requests) : day_requests[i] = day_tokens[i][1]
        /\ IsSuffix(minute_requests, day_requests)
        /\ IsSuffix(minute_tokens, day_tokens)
        /\ Len(minute_requests) <= Len(day_requests)
        /\ Len(day_requests) <= total_requests
        /\ TokenTotal(day_tokens) <= total_tokens

\* with the lock free at t = 61 the minute logs hold the call of t = 31 and
\* the day logs also the call of t = 0
C25_Witness ==
    /\ lock = 0 /\ clock = 61
    /\ minute_requests = <<31>> /\ day_requests = <<0, 31>>
    /\ Len(minute_tokens) = 1 /\ Len(day_tokens) = 2
    /\ total_requests = 2

\* the window of the gate `kind`
WindowOf(kind) ==
    IF kind \in {"requests_per_minute", "tokens_per_minute"}
    THEN minute_window ELSE day_window

\* C26: every triple check_rate_limit returns is well-formed: the wait is
\* at least 0; an admission has wait 0 and no kind; a rejection names one of
\* the four gates and its wait is at most the window of that gate.
C26_WellFormed ==
    [][\A t \in Threads : GatesStep(t) /\ result'[t].exc = "none" =>
          LET r == result'[t]
          IN /\ r.wait >= 0
             /\ r.ok => r.wait = 0 /\ r.kind = "none"
             /\ ~r.ok => /\ r.kind \in {GateOrder[i] : i \in 1..4}
                         /\ r.wait <= WindowOf(r.kind)]_vars

\* the day token gate rejected on an empty log with the largest wait, 86400
C26_Witness ==
    /\ pc[1] = "idle" /\ ret[1] = "triple"
    /\ ~result[1].ok
    /\ result[1].kind = "tokens_per_day"
    /\ result[1].wait = day_window
    /\ day_tokens = <<>>

====
